---- MODULE Spec2Model ----
(***************************************************************************)
(* StudyGeni backend: the /api/files routes (routes/files.js), the auth    *)
(* middleware (middleware/auth.js), the file controller                    *)
(* (controllers/fileController.js) and the server's error handler          *)
(* (api/server.js).                                                        *)
(*                                                                         *)
(* One request is followed through its middleware chain; every await of a  *)
(* handler is a step boundary.  The record store (File), the object        *)
(* storage (cloudinary), the uploads/ directory and the console are the    *)
(* state that outlives a step.                                             *)
(*                                                                         *)
(* Text is a sequence of one-character strings, so that split, toLowerCase,*)
(* replace, trim and JSON.parse are computed rather than assumed.          *)
(***************************************************************************)
EXTENDS Integers, Sequences, FiniteSets, TLC

VARIABLES
    pc,        \* position of the request in the middleware chain / handler
    nreq,      \* number of requests received so far
    req,       \* the request: headers, body, params, file, user
    res,       \* the responses sent for the current request, in order
    disk,      \* paths that exist under uploads/
    cloud,     \* objects held by the remote object storage
    files,     \* the File collection (Document records)
    files0,    \* the File collection when the current request arrived
    console,   \* console.error lines written while handling the request
    calls,     \* collaborators invoked for the current request, in order
    fileExt,   \* uploadFile: const fileExt
    result,    \* how the awaited storage / backend call settled: value or error
    file,      \* uploadFile / getX: const file
    prompt     \* getSummary / getQuiz: const prompt

vars == <<pc, nreq, req, res, disk, cloud, files, files0, console, calls,
          fileExt, result, file, prompt>>

-----------------------------------------------------------------------------
(* Bounds *)

MaxRequests == 2

-----------------------------------------------------------------------------
(* Text helpers: JavaScript string operations on character sequences *)

UpperCase == <<"A","B","C","D","E","F","G","H","I","J","K","L","M",
               "N","O","P","Q","R","S","T","U","V","W","X","Y","Z">>
LowerCase == <<"a","b","c","d","e","f","g","h","i","j","k","l","m",
               "n","o","p","q","r","s","t","u","v","w","x","y","z">>

\* String.prototype.toLowerCase, one character
LowerChar(c) ==
    IF \E i \in 1..Len(UpperCase) : UpperCase[i] = c
    THEN LowerCase[CHOOSE i \in 1..Len(UpperCase) : UpperCase[i] = c]
    ELSE c

\* String.prototype.toLowerCase
toLowerCase(s) == [i \in 1..Len(s) |-> LowerChar(s[i])]

\* s.split('.').pop(): the text after the last '.', the whole text if none
SplitPop(s) ==
    LET dots == {i \in 1..Len(s) : s[i] = "."}
        last == IF dots = {} THEN 0
                ELSE CHOOSE i \in dots : \A j \in dots : j <= i
    IN  SubSeq(s, last + 1, Len(s))

-----------------------------------------------------------------------------
(* uploadFile: extension handling *)

pdf  == <<"p","d","f">>
docx == <<"d","o","c","x">>
ppt  == <<"p","p","t">>
pptx == <<"p","p","t","x">>

\* const allowedTypes = ['pdf', 'docx', 'ppt', 'pptx']
allowedTypes == {pdf, docx, ppt, pptx}

\* req.file.originalname.split('.').pop().toLowerCase()
FileExtOf(originalname) == toLowerCase(SplitPop(originalname))

\* the extension stored as it is, pptx not collapsed to ppt
FileTypeOf_asIs(ext) == ext

\* fileExt === 'pptx' ? 'ppt' : fileExt
FileTypeOf(ext) == IF ext = pptx THEN ppt ELSE ext

-----------------------------------------------------------------------------
(* Collaborators' data *)

\* models/User: the accounts that exist; role is 'teacher' or 'student'
Users == {[id |-> 1, role |-> "teacher"], [id |-> 2, role |-> "student"]}

\* req.user before protect ran, and User.findById's null
NoUser == [id |-> 0, role |-> "none"]

\* Authorization headers a client may send: none, a token jwt.verify
\* rejects, and signed tokens for user ids 1, 2 and 3 (3 has no account)
NoHeader == [bearer |-> FALSE, valid |-> FALSE, id |-> 0]
Authorizations ==
    {NoHeader, [bearer |-> TRUE, valid |-> FALSE, id |-> 0]}
    \cup {[bearer |-> TRUE, valid |-> TRUE, id |-> i] : i \in 1..3}

\* error.message texts of the collaborators' failures
StorageErrors == {"Upload quota exceeded", "ETIMEDOUT"}
DbErrors      == {"MongoNetworkError"}
BackendErrors == {"429 Too Many Requests", "fetch failed"}

\* original filenames of uploads
Filenames ==
    { <<"n","o","t","e","s",".","p","d","f">>,
      <<"N",".","P","D","F">>,
      <<"a",".","d","o","c","x">>,
      <<"s",".","p","p","t">>,
      <<"s",".","P","p","t","X">>,
      <<"x",".","e","x","e">>,
      <<"a",".","p","d","f",".","e","x","e">>,
      <<"p","d","f">>,
      <<"a",".">> }

\* declared media types of uploads
Mimetypes == {"application/pdf", "application/msword", "image/png"}

\* sizes of uploads, in bytes
FileSizes == {4096, 11 * 1024 * 1024}

\* multer limits: fileSize
fileSizeLimit == 10 * 1024 * 1024

\* fileFilter: const allowedTypes
allowedMimetypes ==
    { "application/pdf",
      "application/vnd.openxmlformats-officedocument.wordprocessingml.document",
      "application/msword",
      "application/vnd.ms-powerpoint",
      "application/vnd.openxmlformats-officedocument.presentationml.presentation" }

\* the multipart file part of a request; NoPart when the client sent none
NoPart == [present |-> FALSE, originalname |-> <<>>, mimetype |-> "", size |-> 0]
FileParts ==
    {NoPart} \cup
    [present : {TRUE}, originalname : Filenames, mimetype : Mimetypes,
     size : FileSizes]

\* req.file when multer staged nothing (undefined)
NoFile == [present |-> FALSE, originalname |-> <<>>, path |-> 0]

NoBody == [title |-> "", description |-> "", subject |-> ""]
Bodies == [title : {"", "Algebra Basics"}, description : {"", "Intro"},
           subject : {"", "Math"}]

\* the requests the router serves: POST /, GET /, GET /:id, /:id/summary,
\* /:id/quiz.  params.id ranges over ids the store may hold.
UploadRequests ==
    [route : {"POST /"}, authorization : Authorizations, body : Bodies,
     part : FileParts, id : {0}, user : {NoUser}, file : {NoFile}]
ReadRequests ==
    [route : {"GET /", "GET /:id", "GET /:id/summary", "GET /:id/quiz"},
     authorization : Authorizations, body : {NoBody}, part : {NoPart},
     id : 1..MaxRequests, user : {NoUser}, file : {NoFile}]
Requests == UploadRequests \cup ReadRequests

NoRequest == [route |-> "", authorization |-> NoHeader, body |-> NoBody,
              part |-> NoPart, id |-> 0, user |-> NoUser, file |-> NoFile]

NoData   == [kind |-> "none"]
NoResult == [kind |-> "none"]
NoDoc    == [_id |-> 0]
NoPrompt == [mode |-> "none"]

\* res.status(status).json({success, message, data}); success is "absent"
\* when the body has no such field
Response(status, success, message, data) ==
    [status |-> status, success |-> success, message |-> message,
     data |-> data]

-----------------------------------------------------------------------------
Init ==
    /\ pc = "idle"
    /\ nreq = 0
    /\ req = NoRequest
    /\ res = <<>>
    /\ disk = {}
    /\ cloud = {}
    /\ files = {}
    /\ files0 = {}
    /\ console = <<>>
    /\ calls = <<>>
    /\ fileExt = <<>>
    /\ result = NoResult
    /\ file = NoDoc
    /\ prompt = NoPrompt

\* a request arrives and enters the router
Receive ==
    /\ pc = "idle"
    /\ nreq < MaxRequests
    /\ \E r \in Requests : req' = r
    /\ nreq' = nreq + 1
    /\ pc' = "protect"
    /\ files0' = files
    /\ UNCHANGED <<res, disk, cloud, files, console, calls, fileExt, result,
                   file, prompt>>

\* the response has been delivered: the request and the handler's locals
\* are gone, the server waits for the next request
Finish ==
    /\ pc = "done"
    /\ pc' = "idle"
    /\ req' = NoRequest
    /\ res' = <<>>
    /\ files0' = files
    /\ console' = <<>>
    /\ calls' = <<>>
    /\ fileExt' = <<>>
    /\ result' = NoResult
    /\ file' = NoDoc
    /\ prompt' = NoPrompt
    /\ UNCHANGED <<nreq, disk, cloud, files>>

\* the handler to which the router passes the request after protect
HandlerOf(route) ==
    CASE route = "POST /"           -> "isTeacher"
      [] route = "GET /"            -> "getAllFiles"
      [] route = "GET /:id"         -> "getFile"
      [] route = "GET /:id/summary" -> "getSummary"
      [] route = "GET /:id/quiz"    -> "getQuiz"

\* User.findById(decoded.id).select('-password')
User_findById(id) ==
    IF \E u \in Users : u.id = id
    THEN CHOOSE u \in Users : u.id = id
    ELSE NoUser

\* exports.protect
protect ==
    /\ pc = "protect"
    /\ LET a == req.authorization IN
       IF ~a.bearer
       THEN /\ res' = Append(res, Response(401, "false",
                         "Not authorized, no token provided", NoData))
            /\ pc' = "done"
            /\ UNCHANGED <<req, console>>
       ELSE IF ~a.valid
       THEN \* jwt.verify throws
            /\ console' = Append(console, <<"Auth error:", "jwt malformed">>)
            /\ res' = Append(res, Response(401, "false",
                         "Not authorized, token failed", NoData))
            /\ pc' = "done"
            /\ UNCHANGED req
       ELSE \/ LET u == User_findById(a.id) IN
               IF u = NoUser
               THEN /\ req' = [req EXCEPT !.user = u]
                    /\ res' = Append(res, Response(401, "false",
                                 "User not found", NoData))
                    /\ pc' = "done"
                    /\ UNCHANGED console
               ELSE /\ req' = [req EXCEPT !.user = u]
                    /\ pc' = HandlerOf(req.route)
                    /\ UNCHANGED <<res, console>>
            \/ \E error \in DbErrors :
               \* User.findById rejects
               /\ console' = Append(console, <<"Auth error:", error>>)
               /\ res' = Append(res, Response(401, "false",
                            "Not authorized, token failed", NoData))
               /\ pc' = "done"
               /\ UNCHANGED req
    /\ UNCHANGED <<nreq, disk, cloud, files, files0, calls, fileExt, result,
                   file, prompt>>

\* isTeacher without the role test: every authenticated user passes
isTeacher_anyRole ==
    /\ pc = "isTeacher"
    /\ pc' = "upload.single"
    /\ UNCHANGED <<nreq, req, res, disk, cloud, files, files0, console,
                   calls, fileExt, result, file, prompt>>

\* exports.isTeacher
isTeacher ==
    /\ pc = "isTeacher"
    /\ IF req.user # NoUser /\ req.user.role = "teacher"
       THEN /\ pc' = "upload.single"
            /\ UNCHANGED res
       ELSE /\ res' = Append(res, Response(403, "false",
                 "Access denied. Only teachers can perform this action.",
                 NoData))
            /\ pc' = "done"
    /\ UNCHANGED <<nreq, req, disk, cloud, files, files0, console, calls,
                   fileExt, result, file, prompt>>

\* const fileFilter
fileFilter(part) == part.mimetype \in allowedMimetypes

\* api/server.js error handling middleware: app.use((err, req, res, next))
errorHandler(err) ==
    /\ console' = Append(console, <<"err.stack", err>>)
    /\ res' = Append(res, Response(500, "absent", "Something went wrong!",
                                   NoData))
    /\ pc' = "done"

\* upload.single('file'): multer with diskStorage, fileFilter and limits.
\* The staged path is unique per request (Date.now() and a random suffix).
uploadSingle ==
    /\ pc = "upload.single"
    /\ IF ~req.part.present
       THEN /\ pc' = "uploadFile"
            /\ UNCHANGED <<req, res, disk, console, calls>>
       ELSE IF ~fileFilter(req.part)
       THEN /\ errorHandler(
                 "Invalid file type. Only PDF, DOCX, and PPT files are allowed.")
            /\ UNCHANGED <<req, disk, calls>>
       ELSE IF req.part.size > fileSizeLimit
       THEN \* multer removes the partly written file and passes the error on
            /\ errorHandler("File too large")
            /\ calls' = Append(calls, "staging")
            /\ UNCHANGED <<req, disk>>
       ELSE /\ disk' = disk \cup {nreq}
            /\ req' = [req EXCEPT !.file =
                          [present |-> TRUE,
                           originalname |-> req.part.originalname,
                           path |-> nreq]]
            /\ calls' = Append(calls, "staging")
            /\ pc' = "uploadFile"
            /\ UNCHANGED <<res, console>>
    /\ UNCHANGED <<nreq, cloud, files, files0, fileExt, result, file, prompt>>

-----------------------------------------------------------------------------
(* exports.uploadFile *)

\* fs.existsSync(path)
existsSync(path) == path \in disk

\* the catch block without its cleanup of the staged file
uploadFile_catch_noCleanup(error) ==
    /\ disk' = disk
    /\ console' = Append(console, <<"Upload error:", error>>)
    /\ res' = Append(res, Response(500, "false", error, NoData))
    /\ pc' = "done"

\* uploadFile's catch block: remove the staged file if it is still there,
\* log the error, answer 500 with the error's own message
uploadFile_catch(error) ==
    /\ disk' = IF req.file.present /\ existsSync(req.file.path)
               THEN disk \ {req.file.path}
               ELSE disk
    /\ console' = Append(console, <<"Upload error:", error>>)
    /\ res' = Append(res, Response(500, "false", error, NoData))
    /\ pc' = "done"

\* cloudinary.uploader.upload resolves with the stored object's reference;
\* the storage never deletes, so the next number is fresh
UploadResult ==
    [kind |-> "upload",
     secure_url |-> <<"https://res.cloudinary.com/studygeni", Cardinality(cloud) + 1>>,
     public_id  |-> <<"studygeni", Cardinality(cloud) + 1>>]

\* the record File.create is asked to persist
NewFile ==
    [_id         |-> Cardinality(files) + 1,
     title       |-> req.body.title,
     description |-> IF req.body.description # "" THEN req.body.description
                     ELSE "",
     subject     |-> req.body.subject,
     fileUrl     |-> result.secure_url,
     fileType    |-> FileTypeOf(fileExt),
     publicId    |-> result.public_id,
     createdBy   |-> req.user.id]

\* uploadFile without the test for a missing file: reading
\* req.file.originalname of undefined throws inside the try block
uploadFile_noFileCheck ==
    /\ pc = "uploadFile"
    /\ IF req.body.title = "" \/ req.body.subject = ""
       THEN /\ res' = Append(res, Response(400, "false",
                        "Please provide title and subject", NoData))
            /\ pc' = "done"
            /\ UNCHANGED <<disk, fileExt, calls, console>>
       ELSE IF ~req.file.present
       THEN /\ uploadFile_catch("TypeError")
            /\ UNCHANGED <<fileExt, calls>>
       ELSE LET ext == FileExtOf(req.file.originalname) IN
            /\ fileExt' = ext
            /\ IF ext \notin allowedTypes
               THEN /\ disk' = disk \ {req.file.path}
                    /\ res' = Append(res, Response(400, "false",
                         "Invalid file type. Only PDF, DOCX, PPT, PPTX allowed",
                         NoData))
                    /\ pc' = "done"
                    /\ UNCHANGED <<calls, console>>
               ELSE /\ calls' = Append(calls, "cloudinary.uploader.upload")
                    /\ pc' = "await upload"
                    /\ UNCHANGED <<res, disk, console>>
    /\ UNCHANGED <<nreq, req, cloud, files, files0, result, file, prompt>>

\* lines 14-45: validation, up to the call of cloudinary.uploader.upload
uploadFile ==
    /\ pc = "uploadFile"
    /\ IF req.body.title = "" \/ req.body.subject = ""
       THEN /\ res' = Append(res, Response(400, "false",
                        "Please provide title and subject", NoData))
            /\ pc' = "done"
            /\ UNCHANGED <<disk, fileExt, calls>>
       ELSE IF ~req.file.present
       THEN /\ res' = Append(res, Response(400, "false",
                        "Please upload a file", NoData))
            /\ pc' = "done"
            /\ UNCHANGED <<disk, fileExt, calls>>
       ELSE LET ext == FileExtOf(req.file.originalname) IN
            /\ fileExt' = ext
            /\ IF ext \notin allowedTypes
               THEN /\ disk' = disk \ {req.file.path}
                    /\ res' = Append(res, Response(400, "false",
                         "Invalid file type. Only PDF, DOCX, PPT, PPTX allowed",
                         NoData))
                    /\ pc' = "done"
                    /\ UNCHANGED calls
               ELSE /\ calls' = Append(calls, "cloudinary.uploader.upload")
                    /\ pc' = "await upload"
                    /\ UNCHANGED <<res, disk>>
    /\ UNCHANGED <<nreq, req, cloud, files, files0, console, result, file,
                   prompt>>

\* lines 45-54: the upload settles; on success the staged file is removed
\* and File.create is called
uploadFile_uploaded ==
    /\ pc = "await upload"
    /\ \/ /\ result' = UploadResult
          /\ cloud' = cloud \cup {UploadResult}
          /\ disk' = disk \ {req.file.path}
          /\ calls' = Append(calls, "File.create")
          /\ pc' = "await create"
          /\ UNCHANGED <<res, console>>
       \/ \E error \in StorageErrors :
          /\ result' = [kind |-> "error", error |-> error]
          /\ uploadFile_catch(error)
          /\ UNCHANGED <<cloud, calls>>
    /\ UNCHANGED <<nreq, req, files, files0, fileExt, file, prompt>>

\* lines 54-65: File.create settles; on success populate is called
uploadFile_created ==
    /\ pc = "await create"
    /\ \/ /\ file' = NewFile
          /\ files' = files \cup {NewFile}
          /\ calls' = Append(calls, "file.populate")
          /\ pc' = "await populate"
          /\ UNCHANGED <<res, console, disk>>
       \/ \E error \in DbErrors :
          /\ uploadFile_catch(error)
          /\ UNCHANGED <<file, files, calls>>
    /\ UNCHANGED <<nreq, req, cloud, files0, fileExt, result, prompt>>

\* file.populate('createdBy', 'name email'): the owner's display fields
Populated(doc, fields) ==
    [kind |-> "file", file |-> doc,
     createdBy |-> [id |-> doc.createdBy, fields |-> fields]]

\* lines 65-71: populate settles; on success the 201 response is sent
uploadFile_populated ==
    /\ pc = "await populate"
    /\ \/ /\ res' = Append(res, Response(201, "true",
                      "File uploaded successfully",
                      Populated(file, {"name", "email"})))
          /\ pc' = "done"
          /\ UNCHANGED <<console, disk>>
       \/ \E error \in DbErrors :
          uploadFile_catch(error)
    /\ UNCHANGED <<nreq, req, cloud, files, files0, calls, fileExt, result,
                   file, prompt>>

-----------------------------------------------------------------------------
(* Generation backend output and its decoding *)

\* In backend text the character "Q" stands for the text of one question
\* object of the requested shape, "W" for the text of an object that is
\* not of that shape (three options, correctAnswer "E").
QuestionObject ==
    [t |-> "object",
     fields |-> [question |-> "q", options |-> <<"A) ", "B) ", "C) ", "D) ">>,
                 correctAnswer |-> "A", explanation |-> "e"]]
WrongObject ==
    [t |-> "object",
     fields |-> [question |-> "q", options |-> <<"A) ", "B) ", "C) ">>,
                 correctAnswer |-> "E", explanation |-> "e"]]

JNull      == [t |-> "null"]
JNumber(n) == [t |-> "number", n |-> n]
JArray(a)  == [t |-> "array", items |-> a]

Whitespace == {" ", "\n", "\t"}

RECURSIVE SkipWs(_)
SkipWs(s) ==
    IF s # <<>> /\ Head(s) \in Whitespace THEN SkipWs(Tail(s)) ELSE s

\* String.prototype.trim
RECURSIVE trim(_)
trim(s) ==
    IF s = <<>> THEN s
    ELSE IF Head(s) \in Whitespace THEN trim(Tail(s))
    ELSE IF s[Len(s)] \in Whitespace THEN trim(SubSeq(s, 1, Len(s) - 1))
    ELSE s

StartsWith(s, p) == Len(s) >= Len(p) /\ SubSeq(s, 1, Len(p)) = p

\* s.replace(/<fence>\n?/g, ''): every occurrence of fence, with the
\* newline that follows it if there is one, is removed, left to right
RECURSIVE replaceFence(_, _)
replaceFence(s, fence) ==
    IF s = <<>> THEN <<>>
    ELSE IF StartsWith(s, fence)
    THEN LET r == SubSeq(s, Len(fence) + 1, Len(s)) IN
         replaceFence(IF r # <<>> /\ Head(r) = "\n" THEN Tail(r) ELSE r,
                      fence)
    ELSE <<Head(s)>> \o replaceFence(Tail(s), fence)

\* the grave accent character U+0060, which the lexer of TLA+ does not accept
\* inside a string
Grave == "U+0060"

Fence     == <<Grave, Grave, Grave>>
FenceJson == Fence \o <<"j", "s", "o", "n">>

\* a clean-up that removes the bare fence only, leaving the language tag
CleanUp_bareFenceOnly(quizText) == trim(replaceFence(quizText, Fence))

\* line 239: both replace calls (the json fence, then the bare fence), trim
CleanUp(quizText) ==
    trim(replaceFence(replaceFence(quizText, FenceJson), Fence))

ParseFail == [ok |-> FALSE, val |-> JNull, rest |-> <<>>]

\* JSON.parse over the texts of this model: null, one-digit numbers,
\* objects ("Q", "W") and arrays of values, with JSON whitespace
RECURSIVE ParseValue(_), ParseElements(_, _)
ParseValue(s) ==
    LET t == SkipWs(s) IN
    IF t = <<>> THEN ParseFail
    ELSE IF Head(t) = "Q"
    THEN [ok |-> TRUE, val |-> QuestionObject, rest |-> Tail(t)]
    ELSE IF Head(t) = "W"
    THEN [ok |-> TRUE, val |-> WrongObject, rest |-> Tail(t)]
    ELSE IF Head(t) = "7"
    THEN [ok |-> TRUE, val |-> JNumber(7), rest |-> Tail(t)]
    ELSE IF StartsWith(t, <<"n", "u", "l", "l">>)
    THEN [ok |-> TRUE, val |-> JNull, rest |-> SubSeq(t, 5, Len(t))]
    ELSE IF Head(t) = "["
    THEN LET u == SkipWs(Tail(t)) IN
         IF u # <<>> /\ Head(u) = "]"
         THEN [ok |-> TRUE, val |-> JArray(<<>>), rest |-> Tail(u)]
         ELSE ParseElements(u, <<>>)
    ELSE ParseFail
ParseElements(s, acc) ==
    LET r == ParseValue(s) IN
    IF ~r.ok THEN ParseFail
    ELSE LET u == SkipWs(r.rest) IN
         IF u = <<>> THEN ParseFail
         ELSE IF Head(u) = ","
         THEN ParseElements(Tail(u), Append(acc, r.val))
         ELSE IF Head(u) = "]"
         THEN [ok |-> TRUE, val |-> JArray(Append(acc, r.val)), rest |-> Tail(u)]
         ELSE ParseFail

\* a decoder that yields an empty array where JSON.parse throws
JSON_parse_lenient(text) ==
    LET r == ParseValue(text) IN
    IF r.ok /\ SkipWs(r.rest) = <<>>
    THEN [ok |-> TRUE, val |-> r.val]
    ELSE [ok |-> TRUE, val |-> JArray(<<>>)]

\* JSON.parse(text): ok is FALSE when it throws SyntaxError
JSON_parse(text) ==
    LET r == ParseValue(text) IN
    IF r.ok /\ SkipWs(r.rest) = <<>>
    THEN [ok |-> TRUE, val |-> r.val]
    ELSE [ok |-> FALSE, val |-> JNull]

\* quiz.length: a number for an array, undefined for an object or a number
\* (reading it from null throws, see getQuiz_generated)
LengthOf(v) ==
    IF v.t = "array" THEN [defined |-> TRUE, n |-> Len(v.items)]
    ELSE [defined |-> FALSE, n |-> 0]

RECURSIVE Join(_)
\* the text of an array of the given element texts
Join(elems) ==
    IF elems = <<>> THEN <<>>
    ELSE IF Len(elems) = 1 THEN elems[1]
    ELSE elems[1] \o <<",">> \o Join(Tail(elems))
ArrayText(elems) == <<"[">> \o Join(elems) \o <<"]">>

FiveQuestions == ArrayText(<<<<"Q">>, <<"Q">>, <<"Q">>, <<"Q">>, <<"Q">>>>)

\* texts the generation backend may return for a quiz prompt
QuizTexts ==
    { FiveQuestions,
      FenceJson \o <<"\n">> \o FiveQuestions \o <<"\n">> \o Fence,
      Fence \o <<"\n">> \o FiveQuestions \o <<"\n">> \o Fence,
      <<" ", "\n">> \o FenceJson \o <<"\n">> \o FiveQuestions \o <<"\n">>
          \o Fence \o <<"\n", " ">>,
      Fence \o <<"j", "s", "\n">> \o FiveQuestions \o <<"\n">> \o Fence,
      <<"H", "i", "\n">> \o FenceJson \o <<"\n">> \o FiveQuestions
          \o <<"\n">> \o Fence,
      ArrayText(<<<<"Q">>, <<"Q">>, <<"Q">>>>),
      ArrayText(<<<<"Q">>, <<"Q">>, <<"Q">>, <<"Q">>, <<"Q">>, <<"Q">>>>),
      ArrayText(<<<<"W">>, <<"Q">>, <<"Q">>, <<"Q">>, <<"Q">>>>),
      ArrayText(<<<<"Q">>, <<"7">>, <<"Q">>, <<"Q">>, <<"n","u","l","l">>>>),
      <<"[", "]">>,
      <<"Q">>,
      <<"7">>,
      <<"n", "u", "l", "l">>,
      <<"H", "i">>,
      <<"[", "Q", ",", "Q">>,
      FenceJson \o <<"\n", "[", "Q", ",">>,
      <<>> }

\* texts the generation backend may return for a summary prompt
SummaryTexts == {"Overview: ...", ""}

-----------------------------------------------------------------------------
(* The read handlers *)

\* File.findById(id): the record with that id, null (NoDoc) if none
File_findById(id) ==
    IF \E f \in files : f._id = id
    THEN CHOOSE f \in files : f._id = id
    ELSE NoDoc

\* File.find().sort({createdAt: -1}): all records, newest first
RECURSIVE NewestFirst(_)
NewestFirst(fs) ==
    IF fs = {} THEN <<>>
    ELSE LET newest == CHOOSE f \in fs : \A g \in fs : g._id <= f._id
         IN  <<newest>> \o NewestFirst(fs \ {newest})

\* exports.getAllFiles
getAllFiles ==
    /\ pc = "getAllFiles"
    /\ calls' = Append(calls, "File.find")
    /\ \/ /\ res' = Append(res, Response(200, "true", "",
                      [kind |-> "files", count |-> Cardinality(files),
                       data |-> NewestFirst(files)]))
          /\ UNCHANGED console
       \/ \E error \in DbErrors :
          /\ console' = Append(console, <<"Get files error:", error>>)
          /\ res' = Append(res, Response(500, "false", error, NoData))
    /\ pc' = "done"
    /\ UNCHANGED <<nreq, req, disk, cloud, files, files0, fileExt, result,
                   file, prompt>>

\* exports.getFile
getFile ==
    /\ pc = "getFile"
    /\ calls' = Append(calls, "File.findById")
    /\ \/ /\ file' = File_findById(req.id)
          /\ IF File_findById(req.id) = NoDoc
             THEN res' = Append(res, Response(404, "false", "File not found",
                                              NoData))
             ELSE res' = Append(res, Response(200, "true", "",
                            Populated(File_findById(req.id),
                                      {"name", "email", "role"})))
          /\ UNCHANGED console
       \/ \E error \in DbErrors :
          /\ console' = Append(console, <<"Get file error:", error>>)
          /\ res' = Append(res, Response(500, "false", error, NoData))
          /\ UNCHANGED file
    /\ pc' = "done"
    /\ UNCHANGED <<nreq, req, disk, cloud, files, files0, fileExt, result,
                   prompt>>

\* the summary prompt with the description embedded as it is, empty or not
SummaryPrompt_rawDescription(f) ==
    [mode |-> "summary", title |-> f.title, subject |-> f.subject,
     description |-> f.description]

\* lines 154-166: the summary prompt, as the values the template embeds
SummaryPrompt(f) ==
    [mode |-> "summary", title |-> f.title, subject |-> f.subject,
     description |-> IF f.description # "" THEN f.description
                     ELSE "Not provided"]

\* lines 209-232: the quiz prompt, as the values the template embeds
QuizPrompt(f) ==
    [mode |-> "quiz", title |-> f.title, subject |-> f.subject,
     description |-> IF f.description # "" THEN f.description
                     ELSE "Not provided"]

\* the catch block answering with the error's own message
getSummary_catch_rawMessage(error) ==
    /\ console' = Append(console, <<"Summary generation error:", error>>)
    /\ res' = Append(res, Response(500, "false", error, NoData))
    /\ pc' = "done"

\* getSummary's catch block
getSummary_catch(error) ==
    /\ console' = Append(console, <<"Summary generation error:", error>>)
    /\ res' = Append(res, Response(500, "false",
                 "Failed to generate summary. Please try again.", NoData))
    /\ pc' = "done"

\* the catch block that logs the error and sends nothing
getQuiz_catch_noResponse(error) ==
    /\ console' = Append(console, <<"Quiz generation error:", error>>)
    /\ res' = res
    /\ pc' = "done"

\* getQuiz's catch block
getQuiz_catch(error) ==
    /\ console' = Append(console, <<"Quiz generation error:", error>>)
    /\ res' = Append(res, Response(500, "false",
                 "Failed to generate quiz. Please try again.", NoData))
    /\ pc' = "done"

\* getSummary without the test for a missing record: reading file.title of
\* null throws inside the try block
getSummary_noNotFoundCheck ==
    /\ pc = "getSummary"
    /\ \/ /\ file' = File_findById(req.id)
          /\ IF File_findById(req.id) = NoDoc
             THEN /\ getSummary_catch("TypeError")
                  /\ calls' = Append(calls, "File.findById")
                  /\ UNCHANGED prompt
             ELSE /\ prompt' = SummaryPrompt(File_findById(req.id))
                  /\ calls' = calls \o <<"File.findById",
                                         "model.generateContent">>
                  /\ pc' = "await summary"
                  /\ UNCHANGED <<res, console>>
       \/ \E error \in DbErrors :
          /\ getSummary_catch(error)
          /\ calls' = Append(calls, "File.findById")
          /\ UNCHANGED <<file, prompt>>
    /\ UNCHANGED <<nreq, req, disk, cloud, files, files0, fileExt, result>>

\* getSummary, lines 141-169: load the record, build the prompt, call the
\* generation backend
getSummary ==
    /\ pc = "getSummary"
    /\ \/ /\ file' = File_findById(req.id)
          /\ IF File_findById(req.id) = NoDoc
             THEN /\ res' = Append(res, Response(404, "false",
                                "File not found", NoData))
                  /\ pc' = "done"
                  /\ calls' = Append(calls, "File.findById")
                  /\ UNCHANGED prompt
             ELSE /\ prompt' = SummaryPrompt(File_findById(req.id))
                  /\ calls' = calls \o <<"File.findById",
                                         "model.generateContent">>
                  /\ pc' = "await summary"
                  /\ UNCHANGED res
          /\ UNCHANGED console
       \/ \E error \in DbErrors :
          /\ getSummary_catch(error)
          /\ calls' = Append(calls, "File.findById")
          /\ UNCHANGED <<file, prompt>>
    /\ UNCHANGED <<nreq, req, disk, cloud, files, files0, fileExt, result>>

\* getSummary keeping the generated text in the Document it was made for
getSummary_generated_persisting ==
    /\ pc = "await summary"
    /\ \/ \E summary \in SummaryTexts :
          /\ result' = [kind |-> "text", text |-> summary]
          /\ files' = (files \ {file})
                         \cup {[file EXCEPT !.description = summary]}
          /\ res' = Append(res, Response(200, "true", "",
                      [kind |-> "summary", fileId |-> file._id,
                       title |-> file.title, subject |-> file.subject,
                       summary |-> summary]))
          /\ pc' = "done"
          /\ UNCHANGED console
       \/ \E error \in BackendErrors :
          /\ result' = [kind |-> "error", error |-> error]
          /\ getSummary_catch(error)
          /\ UNCHANGED files
    /\ UNCHANGED <<nreq, req, disk, cloud, files0, calls, fileExt, file,
                   prompt>>

\* getSummary, lines 169-181: the backend call settles
getSummary_generated ==
    /\ pc = "await summary"
    /\ \/ \E summary \in SummaryTexts :
          /\ result' = [kind |-> "text", text |-> summary]
          /\ res' = Append(res, Response(200, "true", "",
                      [kind |-> "summary", fileId |-> file._id,
                       title |-> file.title, subject |-> file.subject,
                       summary |-> summary]))
          /\ pc' = "done"
          /\ UNCHANGED console
       \/ \E error \in BackendErrors :
          /\ result' = [kind |-> "error", error |-> error]
          /\ getSummary_catch(error)
    /\ UNCHANGED <<nreq, req, disk, cloud, files, files0, calls, fileExt,
                   file, prompt>>

\* getQuiz, lines 196-235: load the record, build the prompt, call the
\* generation backend
getQuiz ==
    /\ pc = "getQuiz"
    /\ \/ /\ file' = File_findById(req.id)
          /\ IF File_findById(req.id) = NoDoc
             THEN /\ res' = Append(res, Response(404, "false",
                                "File not found", NoData))
                  /\ pc' = "done"
                  /\ calls' = Append(calls, "File.findById")
                  /\ UNCHANGED prompt
             ELSE /\ prompt' = QuizPrompt(File_findById(req.id))
                  /\ calls' = calls \o <<"File.findById",
                                         "model.generateContent">>
                  /\ pc' = "await quiz"
                  /\ UNCHANGED res
          /\ UNCHANGED console
       \/ \E error \in DbErrors :
          /\ getQuiz_catch(error)
          /\ calls' = Append(calls, "File.findById")
          /\ UNCHANGED <<file, prompt>>
    /\ UNCHANGED <<nreq, req, disk, cloud, files, files0, fileExt, result>>

\* lines 244-254: the success response of getQuiz for a decoded value
QuizResponse(quiz) ==
    Response(200, "true", "",
             [kind |-> "quiz", fileId |-> file._id, title |-> file.title,
              subject |-> file.subject, quiz |-> quiz,
              totalQuestions |-> LengthOf(quiz)])

\* getQuiz, lines 235-254: the backend call settles, the text is cleaned
\* and decoded
getQuiz_generated ==
    /\ pc = "await quiz"
    /\ \/ \E quizText \in QuizTexts :
          LET parsed == JSON_parse(CleanUp(quizText)) IN
          /\ result' = [kind |-> "text", text |-> quizText]
          /\ IF ~parsed.ok
             THEN getQuiz_catch("SyntaxError")
             ELSE IF parsed.val = JNull
             THEN \* quiz.length of null
                  getQuiz_catch("TypeError")
             ELSE /\ res' = Append(res, QuizResponse(parsed.val))
                  /\ pc' = "done"
                  /\ UNCHANGED console
       \/ \E error \in BackendErrors :
          /\ result' = [kind |-> "error", error |-> error]
          /\ getQuiz_catch(error)
    /\ UNCHANGED <<nreq, req, disk, cloud, files, files0, calls, fileExt,
                   file, prompt>>

-----------------------------------------------------------------------------
(* The clean-up-and-decode step of getQuiz on its own: a payload is       *)
(* decoded as it is, then again wrapped in code-fence markers.            *)

\* lines 238-242: clean the backend's text up and decode it
Decoded(quizText) == JSON_parse(CleanUp(quizText))

\* payloads the backend may produce: arrays of questions, other JSON
\* values, JSON with whitespace, and texts that do not decode
Payloads ==
    { FiveQuestions,
      ArrayText(<<<<"Q">>, <<"Q">>, <<"Q">>>>),
      ArrayText(<<<<"W">>, <<"Q">>, <<"Q">>, <<"Q">>, <<"Q">>>>),
      ArrayText(<<<<"Q">>, <<"7">>, <<"n","u","l","l">>>>),
      <<"[", " ", "Q", " ", ",", "\n", "Q", " ", "]">>,
      <<"\n", " ">> \o FiveQuestions \o <<" ", "\n">>,
      <<"[", "]">>,
      <<"Q">>,
      <<"7">>,
      <<"n", "u", "l", "l">>,
      <<"H", "i">>,
      <<"[", "Q", ",", "Q">>,
      <<>> }

\* code-fence wrappings: an opening fence with or without the json tag,
\* with or without the line break after it, a closing fence on its own
\* line or not, and optional whitespace around the whole
Wrappers ==
    [ lead  : {<<>>, <<" ", "\n">>},
      open  : {FenceJson \o <<"\n">>, FenceJson, Fence \o <<"\n">>, Fence},
      close : {<<"\n">> \o Fence, Fence},
      trail : {<<>>, <<"\n", " ">>} ]

Wrap(w, payload) == w.lead \o w.open \o payload \o w.close \o w.trail

\* a Document the store holds after one successful upload
SampleFile ==
    [_id         |-> 1,
     title       |-> "Algebra Basics",
     description |-> "",
     subject     |-> "Math",
     fileUrl     |-> <<"https://res.cloudinary.com/studygeni", 1>>,
     fileType    |-> pdf,
     publicId    |-> <<"studygeni", 1>>,
     createdBy   |-> 1]

\* getQuiz waits for the backend's answer to the quiz prompt of SampleFile
InitDecode ==
    /\ pc = "await quiz"
    /\ nreq = 2
    /\ req = [route |-> "GET /:id/quiz",
              authorization |-> [bearer |-> TRUE, valid |-> TRUE, id |-> 2],
              body |-> NoBody, part |-> NoPart, id |-> 1,
              user |-> [id |-> 2, role |-> "student"], file |-> NoFile]
    /\ res = <<>>
    /\ disk = {}
    /\ cloud = {[kind |-> "upload", secure_url |-> SampleFile.fileUrl,
                 public_id |-> SampleFile.publicId]}
    /\ files = {SampleFile}
    /\ files0 = {SampleFile}
    /\ console = <<>>
    /\ calls = <<"File.findById", "model.generateContent">>
    /\ fileExt = <<>>
    /\ result = NoResult
    /\ file = SampleFile
    /\ prompt = QuizPrompt(SampleFile)

\* the backend's text is a bare payload: clean up and decode
DecodePayload ==
    /\ pc = "await quiz"
    /\ \E payload \in Payloads :
          result' = [kind |-> "decoded", text |-> payload,
                     quiz |-> Decoded(payload)]
    /\ pc' = "decoded"
    /\ UNCHANGED <<nreq, req, res, disk, cloud, files, files0, console,
                   calls, fileExt, file, prompt>>

\* the same payload arrives wrapped in code-fence markers: clean up and
\* decode
DecodeFenced ==
    /\ pc = "decoded"
    /\ \E w \in Wrappers :
          result' = [kind |-> "decoded", text |-> Wrap(w, result.text),
                     quiz |-> Decoded(Wrap(w, result.text))]
    /\ pc' = "decoded fenced"
    /\ UNCHANGED <<nreq, req, res, disk, cloud, files, files0, console,
                   calls, fileExt, file, prompt>>

NextDecode == DecodePayload \/ DecodeFenced

SpecDecode == InitDecode /\ [][NextDecode]_vars

-----------------------------------------------------------------------------
Next ==
    \/ Receive
    \/ protect
    \/ isTeacher
    \/ uploadSingle
    \/ uploadFile
    \/ uploadFile_uploaded
    \/ uploadFile_created
    \/ uploadFile_populated
    \/ getAllFiles
    \/ getFile
    \/ getSummary
    \/ getSummary_generated
    \/ getQuiz
    \/ getQuiz_generated
    \/ Finish

Spec == Init /\ [][Next]_vars

-----------------------------------------------------------------------------
(* Properties *)

Last(q) == q[Len(q)]
Called(name) == \E i \in 1..Len(calls) : calls[i] = name

\* the request has been answered
Answered == pc = "done" /\ Len(res) >= 1

\* an upload request whose handler uploadFile ran with a staged file
UploadWithStagedFile ==
    pc = "done" /\ req.route = "POST /" /\ req.file.present

\* the storage upload of this request failed
StorageUploadFailed ==
    /\ pc = "done"
    /\ req.route = "POST /"
    /\ calls # <<>>
    /\ Last(calls) = "cloudinary.uploader.upload"
    /\ result.kind = "error"

\* C1: when an upload that reached uploadFile with a staged temp file has
\* been answered, the temp file no longer exists, whatever the exit path.
C1_TempFileDeletedOnEveryExit ==
    UploadWithStagedFile => req.file.path \notin disk

\* C2: once an upload request has finished, the remote objects and the
\* Document records correspond one to one: no remote object without its
\* record, no record without its remote object.
C2_UploadAtomic ==
    pc \in {"done", "idle"} =>
        {o.public_id : o \in cloud} = {f.publicId : f \in files}

\* C3: an upload whose filename has an extension outside
\* {pdf, docx, ppt, pptx} (case-insensitively) is rejected, creates no
\* Document, never invokes the storage uploader and leaves no temp file.
C3_DisallowedExtensionRejected ==
    (UploadWithStagedFile
        /\ FileExtOf(req.file.originalname) \notin {pdf, docx, ppt, pptx})
    => /\ Len(res) = 1
       /\ res[1].success = "false"
       /\ files = files0
       /\ ~Called("cloudinary.uploader.upload")
       /\ req.file.path \notin disk

\* the upload request was answered 201
UploadSucceeded ==
    /\ pc = "done"
    /\ req.route = "POST /"
    /\ \E i \in 1..Len(res) : res[i].status = 201

\* C4: an upload answered 201 has created exactly one Document; its
\* fileType is pdf, docx or ppt, and its fileUrl and storage identifier are
\* the non-empty values the storage upload of this request returned.
C4_SuccessCreatesOneDocument ==
    UploadSucceeded =>
        /\ Cardinality(files \ files0) = 1
        /\ files0 \subseteq files
        /\ \A d \in files \ files0 :
              /\ d.fileType \in {pdf, docx, ppt}
              /\ result.kind = "upload"
              /\ result \in cloud
              /\ d.fileUrl = result.secure_url
              /\ d.publicId = result.public_id
              /\ Len(d.fileUrl) > 0
              /\ Len(d.publicId) > 0
              /\ Last(res).data.file = d

\* a pptx upload was answered 201
C4_Witness ==
    /\ UploadSucceeded
    /\ fileExt = pptx
    /\ \E d \in files \ files0 : d.fileType = ppt

\* a decoded value is a question of the requested shape
IsQuizQuestion(v) ==
    /\ v.t = "object"
    /\ DOMAIN v.fields = {"question", "options", "correctAnswer", "explanation"}
    /\ Len(v.fields.options) = 4
    /\ v.fields.correctAnswer \in {"A", "B", "C", "D"}

\* getQuiz answered with success
QuizSucceeded ==
    /\ pc = "done"
    /\ req.route = "GET /:id/quiz"
    /\ \E i \in 1..Len(res) : res[i].success = "true"

\* C5: whenever getQuiz answers with success, the quiz it returns is a
\* sequence of exactly 5 questions of the requested shape and totalQuestions
\* is 5, whatever decodable text the backend returned.
C5_QuizAlwaysFiveQuestions ==
    QuizSucceeded =>
        LET data == Last(res).data IN
        /\ data.quiz.t = "array"
        /\ Len(data.quiz.items) = 5
        /\ \A i \in 1..Len(data.quiz.items) : IsQuizQuestion(data.quiz.items[i])
        /\ data.totalQuestions = [defined |-> TRUE, n |-> 5]

\* C6: when the storage upload fails, no Document is created, the temp
\* file is gone and the one response sent is a failure.
C6_StorageFailureCleansUp ==
    StorageUploadFailed =>
        /\ files = files0
        /\ req.file.path \notin disk
        /\ Len(res) = 1
        /\ res[1].success = "false"
        /\ res[1].status = 500

\* a storage upload failed while the staged file of the request existed
C6_Witness ==
    /\ StorageUploadFailed
    /\ req.file.present
    /\ Called("staging")
    /\ Len(res) = 1

\* C7: when the storage upload fails, the message sent to the caller is
\* not the storage error's own text.
C7_StorageFailureMessageGeneric ==
    StorageUploadFailed =>
        \A i \in 1..Len(res) :
            /\ res[i].message # result.error
            /\ res[i].message \notin StorageErrors

\* C8: an upload request whose authenticated user is not a teacher, or
\* that has no authenticated user, never gets past isTeacher: nothing is
\* staged, validated, uploaded or stored, and the answer is a rejection.
C8_NonTeacherNeverReachesUpload ==
    (req.route = "POST /" /\ req.user.role # "teacher") =>
        /\ pc \in {"protect", "isTeacher", "done"}
        /\ calls = <<>>
        /\ fileExt = <<>>
        /\ disk \cap {nreq} = {}
        /\ files = files0
        /\ pc = "done" => /\ Len(res) = 1
                          /\ res[1].status \in {401, 403}
                          /\ res[1].success = "false"

\* a student's upload with a file part was answered 403
C8_Witness ==
    /\ pc = "done"
    /\ req.route = "POST /"
    /\ req.user.role = "student"
    /\ req.part.present
    /\ Len(res) = 1
    /\ res[1].status = 403

\* backend texts that hold no complete structured payload: prose, a
\* truncated array, a truncated array after an opening fence, nothing
MalformedTexts ==
    { <<"H", "i">>,
      <<"[", "Q", ",", "Q">>,
      FenceJson \o <<"\n", "[", "Q", ",">>,
      <<>> }

\* the backend answered the quiz prompt with a malformed text
QuizTextMalformed ==
    /\ pc = "done"
    /\ req.route = "GET /:id/quiz"
    /\ result.kind = "text"
    /\ result.text \in MalformedTexts

\* C9: when the backend's text cannot be decoded, getQuiz answers with the
\* generation failure and never with a success carrying a quiz.
C9_MalformedTextFails ==
    QuizTextMalformed =>
        /\ Len(res) = 1
        /\ res[1].status = 500
        /\ res[1].success = "false"
        /\ res[1].message = "Failed to generate quiz. Please try again."
        /\ res[1].data = NoData

\* a truncated payload was answered with the failure
C9_Witness ==
    /\ QuizTextMalformed
    /\ result.text = <<"[", "Q", ",", "Q">>
    /\ Len(res) = 1
    /\ res[1].status = 500

\* the generation backend call of getSummary or getQuiz failed
BackendFailed ==
    /\ pc = "done"
    /\ req.route \in {"GET /:id/summary", "GET /:id/quiz"}
    /\ Called("model.generateContent")
    /\ result.kind = "error"

\* C10: when the backend call fails, the answer is a failure whose message
\* is the handler's fixed text, the same for every backend error, and the
\* error is written to the console.
C10_BackendFailureGeneric ==
    BackendFailed =>
        /\ Len(res) = 1
        /\ res[1].status = 500
        /\ res[1].success = "false"
        /\ res[1].message =
              (IF req.route = "GET /:id/summary"
               THEN "Failed to generate summary. Please try again."
               ELSE "Failed to generate quiz. Please try again.")
        /\ res[1].message \notin BackendErrors
        /\ Len(console) = 1
        /\ console[1] =
              <<IF req.route = "GET /:id/summary"
                THEN "Summary generation error:"
                ELSE "Quiz generation error:", result.error>>

\* the backend call of getSummary failed and was answered
C10_Witness ==
    /\ BackendFailed
    /\ req.route = "GET /:id/summary"
    /\ result.error = "fetch failed"
    /\ Len(res) = 1

\* the request is served by getSummary or getQuiz
ArtifactRequest == req.route \in {"GET /:id/summary", "GET /:id/quiz"}

\* the record store's lookup itself failed (the caught error is the store's)
FindRejected == console # <<>> /\ console[1][2] \in DbErrors

\* getSummary / getQuiz looked the record up, found none, and answered
ArtifactIdNotFound ==
    /\ pc = "done"
    /\ ArtifactRequest
    /\ Called("File.findById")
    /\ ~FindRejected
    /\ \A f \in files : f._id # req.id

\* C11: in getSummary and getQuiz an id that is not found is answered 404
\* and the generation backend is not invoked; the backend is invoked only
\* after File.findById, for a Document that was loaded.
C11_NotFoundBeforeBackend ==
    /\ ArtifactIdNotFound =>
          /\ Len(res) = 1
          /\ res[1].status = 404
          /\ res[1].success = "false"
          /\ res[1].message = "File not found"
          /\ ~Called("model.generateContent")
    /\ (ArtifactRequest /\ Called("model.generateContent")) =>
          /\ calls = <<"File.findById", "model.generateContent">>
          /\ file \in files
          /\ file._id = req.id

\* a summary was asked for an id the store does not hold, while it holds
\* another Document, and the request was answered 404
C11_Witness ==
    /\ ArtifactIdNotFound
    /\ req.route = "GET /:id/summary"
    /\ files # {}
    /\ Len(res) = 1
    /\ res[1].status = 404

\* the body lacks title or subject, or no file was staged
MissingField ==
    req.body.title = "" \/ req.body.subject = "" \/ ~req.file.present

\* the 400 bodies of uploadFile's two field checks
MissingFieldResponses ==
    { Response(400, "false", "Please provide title and subject", NoData),
      Response(400, "false", "Please upload a file", NoData) }

\* C12: when uploadFile is entered for a request that lacks title, subject
\* or the file, its step answers with a 400 validation error and touches
\* neither the uploads directory, nor the storage, nor the record store.
C12_MissingFieldRejectedFirst ==
    [][(pc = "uploadFile" /\ MissingField) =>
          /\ pc' = "done"
          /\ Len(res') = 1
          /\ res'[1] \in MissingFieldResponses
          /\ disk' = disk
          /\ cloud' = cloud
          /\ files' = files
          /\ calls' = calls
          /\ fileExt' = <<>>]_vars

\* uploadFile rejected a request without title whose file had been staged
C12_Witness ==
    /\ pc = "done"
    /\ req.route = "POST /"
    /\ req.user.role = "teacher"
    /\ req.file.present
    /\ req.body.title = ""
    /\ calls = <<"staging">>
    /\ Len(res) = 1
    /\ res[1].message = "Please provide title and subject"

\* the known media types of each accepted format: PDF, Word (legacy or
\* OOXML), PowerPoint (legacy or OOXML)
MimetypesOfFormat(ext) ==
    IF ext = pdf THEN {"application/pdf"}
    ELSE IF ext = docx
    THEN {"application/msword",
          "application/vnd.openxmlformats-officedocument.wordprocessingml.document"}
    ELSE IF ext \in {ppt, pptx}
    THEN {"application/vnd.ms-powerpoint",
          "application/vnd.openxmlformats-officedocument.presentationml.presentation"}
    ELSE {}

\* C13: an upload reaches the storage uploader only if its filename's
\* extension is pdf, docx, ppt or pptx (case-insensitively) and its declared
\* media type is one of the known types of that format.
C13_ExtensionAndMediaTypeMatch ==
    (req.route = "POST /" /\ Called("cloudinary.uploader.upload")) =>
        /\ FileExtOf(req.part.originalname) \in {pdf, docx, ppt, pptx}
        /\ req.part.mimetype \in
              MimetypesOfFormat(FileExtOf(req.part.originalname))

\* C14: the clean-up-and-decode step of getQuiz yields for a payload
\* wrapped in code-fence markers (json tag or none, whitespace around) the
\* same result as for the payload without fences.
C14_FencesDoNotChangeResult ==
    [][(pc = "decoded" /\ pc' = "decoded fenced") =>
          result'.quiz = result.quiz]_vars

\* five questions inside a json fence with whitespace around were decoded
C14_Witness ==
    /\ pc = "decoded fenced"
    /\ result.text = <<" ", "\n">> \o FenceJson \o <<"\n">> \o FiveQuestions
                        \o <<"\n">> \o Fence \o <<"\n", " ">>
    /\ result.quiz.ok
    /\ result.quiz.val.t = "array"
    /\ Len(result.quiz.val.items) = 5

\* the positions of the four read handlers
ReadHandlerPositions ==
    {"getAllFiles", "getFile", "getSummary", "await summary", "getQuiz",
     "await quiz"}

\* C15: Documents are create-once, read-many: a step of getAllFiles,
\* getFile, getSummary or getQuiz leaves the File collection as it is, and
\* no step removes or changes a record; the collection only changes when
\* uploadFile's File.create adds one record.
C15_DocumentsCreateOnceReadMany ==
    [][/\ files \subseteq files'
       /\ pc \in ReadHandlerPositions => files' = files
       /\ files' # files =>
             /\ pc = "await create"
             /\ req.route = "POST /"
             /\ Cardinality(files' \ files) = 1]_vars

\* a quiz was generated for a stored Document, and the store still holds
\* exactly the records it held when the request arrived
C15_Witness ==
    /\ pc = "done"
    /\ req.route = "GET /:id/quiz"
    /\ Len(res) = 1
    /\ res[1].success = "true"
    /\ files # {}
    /\ files = files0

\* getSummary answered with success
SummarySucceeded ==
    /\ pc = "done"
    /\ req.route = "GET /:id/summary"
    /\ Len(res) = 1
    /\ res[1].success = "true"

\* C16: getSummary builds its prompt from the loaded Document, with
\* 'Not provided' in place of an empty description, and on backend success
\* answers with the backend's text verbatim as data.summary and with
\* fileId, title and subject of that Document.
C16_SummaryPromptAndPassThrough ==
    /\ (req.route = "GET /:id/summary" /\ Called("model.generateContent")) =>
          /\ file \in files
          /\ file._id = req.id
          /\ prompt.mode = "summary"
          /\ prompt.title = file.title
          /\ prompt.subject = file.subject
          /\ file.description = "" => prompt.description = "Not provided"
          /\ file.description # "" => prompt.description = file.description
    /\ SummarySucceeded =>
          /\ result.kind = "text"
          /\ res[1].status = 200
          /\ res[1].data.summary = result.text
          /\ res[1].data.fileId = file._id
          /\ res[1].data.title = file.title
          /\ res[1].data.subject = file.subject

\* a summary was returned for a Document stored without description
C16_Witness ==
    /\ SummarySucceeded
    /\ file.description = ""
    /\ prompt.description = "Not provided"
    /\ result.text = "Overview: ..."
    /\ res[1].data.summary = "Overview: ..."

\* C17: an upload answered with a failure has persisted no Document; the
\* request has added a Document only if it was answered 201.
C17_FailureLeavesNoDocument ==
    (pc = "done" /\ req.route = "POST /") =>
        /\ (\E i \in 1..Len(res) : res[i].success # "true") => files = files0
        /\ files # files0 => \E i \in 1..Len(res) : res[i].status = 201

\* the positions inside uploadFile, getFile, getSummary and getQuiz
HandlerPositions ==
    {"uploadFile", "await upload", "await create", "await populate",
     "getFile", "getSummary", "await summary", "getQuiz", "await quiz"}

\* the handler of the request has run to its end
HandlerReturned ==
    /\ pc = "done"
    /\ req.route \in {"POST /", "GET /:id", "GET /:id/summary", "GET /:id/quiz"}
    /\ req.user # NoUser
    /\ req.route = "POST /" =>
          (req.user.role = "teacher" /\ (req.part.present => req.file.present))

====
